---- MODULE Spec2Model ----
(***************************************************************************)
(* Model of the Codex Electron main process: the AppServerManager (the     *)
(* subprocess-backed JSON-RPC client), the WindowManager's routing of      *)
(* server-initiated requests, and the ChatSession renderer's approval      *)
(* prompt.                                                                 *)
(*                                                                         *)
(* Node's event loop runs one callback at a time, so every action below is *)
(* one callback (an API call, a child-process event, an IPC message)       *)
(* together with the promise continuations (microtasks) it releases.       *)
(***************************************************************************)
EXTENDS Integers, Sequences, FiniteSets, TLC

\* ---------------------------------------------------------------- bounds
MaxProc     == 2    \* child processes spawned in one run
MaxReq      == 3    \* outbound request ids handed out by send()
MaxSrvId    == 2    \* distinct id values the subprocess uses for its own requests
MaxInbound  == 2    \* server-initiated requests received in one run
MaxWin      == 2    \* BrowserWindows created in one run
MaxClicks   == 2    \* handleApprovalResponse invocations awaiting their IPC reply, per window
MaxChars    == 5    \* characters of stdout text delivered in one run
MaxChunk    == 4    \* characters in one 'data' chunk

Procs   == 1..MaxProc
CallIds == 1..MaxReq
Wins    == 1..MaxWin
Threads == {"T1", "T2"}

\* ------------------------------------------------------------ JSON values
\* A RequestId is `string | number`: the JSON type is part of the value.
NumId(n) == [t |-> "num", v |-> n]
StrId(n) == [t |-> "str", v |-> n]      \* the string of n's decimal digits

\* JavaScript String(id): a number becomes its decimal string, a string stays.
String(id) == [t |-> "str", v |-> id.v]

\* A settled call's value: the result the subprocess computed for request n,
\* undefined, or the message of an Error.
Val(k, n, msg) == [k |-> k, n |-> n, msg |-> msg]
Undefined   == Val("undefined", 0, "")
ResultFor(n) == Val("result", n, "")
ErrorOf(msg) == Val("error", 0, msg)
NoError   == [code |-> 0, message |-> "", data |-> ""]
Errors    == {[code |-> 1, message |-> "unknown variant", data |-> "d1"],
              [code |-> 2, message |-> "invalid params", data |-> "d2"]}

ApprovalMethods == {"exec/approvalRequest", "applyPatch/approvalRequest"}
RequestMethods  == ApprovalMethods \cup {"userInput/request", "other/request"}
NotifMethods    == {"turn/completed", "other/notification"}

\* Records the subprocess writes on stdout, one per line, by the fields present.
ResponseRec(id, res) ==
    [hasId |-> TRUE, id |-> id, hasMethod |-> FALSE, method |-> "",
     result |-> res, error |-> NoError, threadId |-> ""]
ErrorRec(id, err) ==
    [hasId |-> TRUE, id |-> id, hasMethod |-> FALSE, method |-> "",
     result |-> Undefined, error |-> err, threadId |-> ""]
BareIdRec(id) ==
    [hasId |-> TRUE, id |-> id, hasMethod |-> FALSE, method |-> "",
     result |-> Undefined, error |-> NoError, threadId |-> ""]
ServerRequestRec(m, id, th) ==
    [hasId |-> TRUE, id |-> id, hasMethod |-> TRUE, method |-> m,
     result |-> Undefined, error |-> NoError, threadId |-> th]
NotificationRec(m, th) ==
    [hasId |-> FALSE, id |-> NumId(0), hasMethod |-> TRUE, method |-> m,
     result |-> Undefined, error |-> NoError, threadId |-> th]

\* Records the host writes on the subprocess's stdin.
OutRequest(m, n)      == [kind |-> "request", method |-> m, id |-> NumId(n), result |-> Undefined]
OutNotification(m)    == [kind |-> "notification", method |-> m, id |-> NumId(0), result |-> Undefined]
OutResponse(id, res)  == [kind |-> "response", method |-> "", id |-> id, result |-> res]

\* An ApprovalRequest / RequestUserInputRequest as emitted to the windows.
NoReq == [type |-> "none", requestId |-> StrId(0), threadId |-> ""]
NoEvent == [name |-> "none", req |-> NoReq, method |-> ""]

VARIABLES
    \* AppServerManager fields
    process,          \* this.process: 0 is null, else the ChildProcess
    pendingRequests,  \* keys of this.pendingRequests (numbers handed out by send)
    requestId,        \* this.requestId
    initialized,      \* this.initialized
    \* the promises and closures send() creates, by id
    calls,            \* id -> [method, caller, proc, status, value, origin]: caller is
                      \* "start", "api", "ipc" (handleRequest) or "ipc-retry" (its
                      \* catch block, origin being the id of the call that failed)
    \* the child processes
    spawned,          \* number of processes spawned so far
    procState,        \* p -> "none" | "running" | "dead" (killed) | "exited" |
                      \*      "spawnfail" | "failed" ('error' emitted)
    stdin,            \* p -> the records written to p's stdin, in order
    \* WindowManager fields and the BrowserWindows
    mainWindow,       \* this.mainWindow: 0 is null
    sessionWindows,   \* threadId -> window, 0 is no entry
    windowMode,       \* settings.windowMode
    wins,             \* w -> [kind, threadId, destroyed]
    \* ChatSession state of the renderer in each window
    pendingApproval,  \* w -> the ApprovalRequest shown by the modal, or NoReq
    awaiting,         \* w -> handleApprovalResponse calls awaiting their IPC reply
    \* observations
    emitted,          \* the last event the manager emitted
    sentTo,           \* the windows that event was sent to
    inbound,          \* server-initiated requests received so far, each with the
                      \* windows whose ChatSession took it into its prompt
    answeredInit,     \* processes that answered their own initialize request with a result
    \* stdout text
    buffer,           \* this.buffer: the characters after the last newline seen
    stream,           \* observation: every character passed to handleData so far, in
                      \* order, each with the process whose stdout it came from and
                      \* whether it was the first of its chunk
    dispatched,       \* observation: the lines handed to handleMessage so far, in
                      \* order, each with the process whose chunk completed it
    ret               \* what the last API call returned to its caller

vars == <<process, pendingRequests, requestId, initialized, calls,
          spawned, procState, stdin, mainWindow, sessionWindows, windowMode,
          wins, pendingApproval, awaiting, emitted, sentTo, inbound,
          answeredInit, buffer, stream, dispatched, ret>>

framingVars == <<buffer, stream, dispatched>>

managerVars == <<process, pendingRequests, requestId, initialized, calls,
                 spawned, procState, stdin>>
windowVars  == <<mainWindow, sessionWindows, windowMode, wins>>
rendererVars == <<pendingApproval, awaiting>>

NoCall == [method |-> "", caller |-> "", proc |-> 0, status |-> "unused", value |-> Undefined,
           origin |-> 0]
NoWin  == [kind |-> "none", threadId |-> "", destroyed |-> FALSE]
NoRet  == [op |-> "none", res |-> ""]

Init ==
    /\ process = 0
    /\ pendingRequests = {}
    /\ requestId = 0
    /\ initialized = FALSE
    /\ calls = [i \in CallIds |-> NoCall]
    /\ spawned = 0
    /\ procState = [p \in Procs |-> "none"]
    /\ stdin = [p \in Procs |-> <<>>]
    /\ mainWindow = 0
    /\ sessionWindows = [t \in Threads |-> 0]
    /\ windowMode = "multi"
    /\ wins = [w \in Wins |-> NoWin]
    /\ pendingApproval = [w \in Wins |-> NoReq]
    /\ awaiting = [w \in Wins |-> 0]
    /\ emitted = NoEvent
    /\ sentTo = {}
    /\ inbound = {}
    /\ answeredInit = {}
    /\ buffer = <<>>
    /\ stream = <<>>
    /\ dispatched = <<>>
    /\ ret = NoRet

\* ------------------------------------------------------- WindowManager
IsAlive(w) == w # 0 /\ ~wins[w].destroyed

\* broadcast() leaving out the main window.
BroadcastTargets_SkipsMain ==
    {w \in Wins : IsAlive(w) /\ \E t \in Threads : sessionWindows[t] = w}

\* broadcast(): the main window and every sessionWindows value, unless destroyed.
BroadcastTargets ==
    {w \in Wins : IsAlive(w) /\ (w = mainWindow \/ \E t \in Threads : sessionWindows[t] = w)}

\* The listeners broadcasting also when the thread's window is open.
RouteTargets_AlwaysBroadcast(threadId) == BroadcastTargets

\* The approvalRequest / userInputRequest listeners: the thread's window if it
\* is registered and not destroyed, otherwise broadcast.
RouteTargets(threadId) ==
    LET w == IF threadId \in Threads THEN sessionWindows[threadId] ELSE 0
    IN  IF IsAlive(w) THEN {w} ELSE BroadcastTargets

\* ChatSession's onApprovalRequest subscription in each window the event is
\* sent to: the slot is overwritten when the request is for the thread shown.
\* (wins[w].threadId is "" where no ChatSession is mounted.)
OnApprovalRequest(req, targets) ==
    [w \in Wins |->
        IF w \in targets /\ req.threadId = wins[w].threadId
        THEN req ELSE pendingApproval[w]]

\* ---------------------------------------------------- AppServerManager
isReady == process # 0 /\ initialized

\* The part of send() after the not-running check, on the attached process p.
SendOn(p, m, caller) ==
    LET id == requestId + 1 IN
    /\ requestId' = id
    /\ pendingRequests' = pendingRequests \cup {id}
    /\ calls' = [calls EXCEPT ![id] =
                    [method |-> m, caller |-> caller, proc |-> p,
                     status |-> "pending", value |-> Undefined, origin |-> 0]]
    /\ stdin' = [stdin EXCEPT ![p] = Append(@, OutRequest(m, id))]
    /\ ret' = [op |-> (IF caller = "start" THEN "start" ELSE "send"),
               res |-> "pending"]

\* send() taking its id before it looks at this.process.
Send_IdBeforeCheck(m) ==
    IF process = 0
    THEN /\ requestId < MaxReq
         /\ requestId' = requestId + 1
         /\ ret' = [op |-> "send", res |-> "not_running"]
         /\ UNCHANGED <<process, pendingRequests, initialized, calls, spawned, procState,
                        stdin, windowVars, rendererVars, emitted, sentTo, inbound,
                        answeredInit, framingVars>>
    ELSE /\ requestId < MaxReq
         /\ SendOn(process, m, "api")
         /\ UNCHANGED <<process, initialized, spawned, procState, windowVars,
                        rendererVars, emitted, sentTo, inbound, answeredInit, framingVars>>

\* send(method): rejects at once when no process is attached.
Send(m) ==
    IF process = 0
    THEN /\ ret' = [op |-> "send", res |-> "not_running"]
         /\ UNCHANGED <<managerVars, windowVars, rendererVars,
                        emitted, sentTo, inbound, answeredInit, framingVars>>
    ELSE /\ requestId < MaxReq
         /\ SendOn(process, m, "api")
         /\ UNCHANGED <<process, initialized, spawned, procState, windowVars,
                        rendererVars, emitted, sentTo, inbound, answeredInit, framingVars>>

\* The facade's generic handler up to its await: send(method) for the caller
\* "ipc". What follows a rejection is part of SettlePending; the other ways a
\* call is rejected carry messages without 'unknown variant', and the error
\* is rethrown.
handleRequest(m) ==
    IF process = 0
    THEN /\ ret' = [op |-> "send", res |-> "not_running"]
         /\ UNCHANGED <<managerVars, windowVars, rendererVars,
                        emitted, sentTo, inbound, answeredInit, framingVars>>
    ELSE /\ requestId < MaxReq
         /\ SendOn(process, m, "ipc")
         /\ UNCHANGED <<process, initialized, spawned, procState, windowVars,
                        rendererVars, emitted, sentTo, inbound, answeredInit, framingVars>>

\* spawn() and what start() does after it: the handlers are attached and
\* initialize() runs up to its await (the initialize request is written to the
\* new child's stdin). st is "running" when the binary was started, and
\* "spawnfail" when it could not be: spawn() still returns a ChildProcess,
\* whose 'error' event is emitted on the next tick.
spawn(st) ==
    /\ spawned < MaxProc
    /\ requestId < MaxReq
    /\ spawned' = spawned + 1
    /\ process' = spawned + 1
    /\ procState' = [procState EXCEPT ![spawned + 1] = st]
    /\ SendOn(spawned + 1, "initialize", "start")
    /\ UNCHANGED <<initialized, windowVars, rendererVars,
                   emitted, sentTo, inbound, answeredInit, framingVars>>

\* start(): returns at once when a process is attached; otherwise spawns.
Start ==
    IF process # 0
    THEN /\ ret' = [op |-> "start", res |-> "already_running"]
         /\ UNCHANGED <<managerVars, windowVars, rendererVars,
                        emitted, sentTo, inbound, answeredInit, framingVars>>
    ELSE spawn("running")

\* start() when the binary cannot be located or started.
StartSpawnFails ==
    /\ process = 0
    /\ spawn("spawnfail")

\* The 'error' handler start() attaches to process p: the error is logged and
\* re-emitted as the manager's 'error' event; no field changes. (A child that
\* failed to spawn emits 'error' and never 'exit'.)
ErrorEvent(p) ==
    /\ procState[p] = "spawnfail"
    /\ procState' = [procState EXCEPT ![p] = "failed"]
    /\ emitted' = [name |-> "error", req |-> NoReq, method |-> ""]
    /\ sentTo' = {}
    /\ UNCHANGED <<process, pendingRequests, requestId, initialized, calls, spawned,
                   stdin, windowVars, rendererVars, inbound, answeredInit, framingVars, ret>>

\* stop() restarting the numbering of requests.
Stop_ResetsIds ==
    /\ IF process # 0
       THEN /\ procState' = [procState EXCEPT ![process] =
                                 IF @ = "running" THEN "dead" ELSE @]
            /\ process' = 0
            /\ initialized' = FALSE
       ELSE UNCHANGED <<procState, process, initialized>>
    /\ requestId' = 0
    /\ ret' = [op |-> "stop", res |-> ""]
    /\ UNCHANGED <<pendingRequests, calls, spawned, stdin,
                   windowVars, rendererVars, emitted, sentTo, inbound, answeredInit, framingVars>>

\* stop(): kills and detaches the attached process; pending calls are left to
\* the exit handler. (kill() on a child that failed to spawn does nothing.)
Stop ==
    /\ IF process # 0
       THEN /\ procState' = [procState EXCEPT ![process] =
                                 IF @ = "running" THEN "dead" ELSE @]
            /\ process' = 0
            /\ initialized' = FALSE
       ELSE UNCHANGED <<procState, process, initialized>>
    /\ ret' = [op |-> "stop", res |-> ""]
    /\ UNCHANGED <<pendingRequests, requestId, calls, spawned, stdin,
                   windowVars, rendererVars, emitted, sentTo, inbound, answeredInit, framingVars>>

\* The 'exit' handler rejecting the pending calls without deleting them.
ExitEvent_KeepsEntries(p) ==
    /\ procState[p] \in {"running", "dead"}
    /\ procState' = [procState EXCEPT ![p] = "exited"]
    /\ process' = 0
    /\ initialized' = FALSE
    /\ emitted' = [name |-> "exit", req |-> NoReq, method |-> ""]
    /\ sentTo' = {}
    /\ calls' = [i \in CallIds |->
                    IF i \in pendingRequests
                    THEN [calls[i] EXCEPT !.status = "rejected",
                                          !.value = ErrorOf("App server process exited")]
                    ELSE calls[i]]
    /\ UNCHANGED <<pendingRequests, requestId, spawned, stdin, windowVars, rendererVars,
                   inbound, answeredInit, framingVars, ret>>

\* The 'exit' handler start() attaches to process p (Node emits 'exit' once per
\* child, after a kill or when the child ends by itself). The start() calls
\* among the rejected ones reject in turn; that changes no field.
ExitEvent(p) ==
    /\ procState[p] \in {"running", "dead"}
    /\ procState' = [procState EXCEPT ![p] = "exited"]
    /\ process' = 0
    /\ initialized' = FALSE
    /\ emitted' = [name |-> "exit", req |-> NoReq, method |-> ""]
    /\ sentTo' = {}
    /\ calls' = [i \in CallIds |->
                    IF i \in pendingRequests
                    THEN [calls[i] EXCEPT !.status = "rejected",
                                          !.value = ErrorOf("App server process exited")]
                    ELSE calls[i]]
    /\ pendingRequests' = {}
    /\ UNCHANGED <<requestId, spawned, stdin, windowVars, rendererVars,
                   inbound, answeredInit, framingVars, ret>>

\* The callback send() passes to stdin.write, run with an error (the pipe of
\* a child that is no longer running): the entry is deleted and the promise
\* rejected. Run without an error it does nothing, and on a call that is
\* already settled it changes nothing, so only this case is an action.
WriteError(id) ==
    /\ id \in pendingRequests
    /\ procState[calls[id].proc] # "running"
    /\ pendingRequests' = pendingRequests \ {id}
    /\ calls' = [calls EXCEPT ![id] =
                    [@ EXCEPT !.status = "rejected", !.value = ErrorOf("write EPIPE")]]
    /\ UNCHANGED <<process, requestId, initialized, spawned, procState, stdin,
                   windowVars, rendererVars, emitted, sentTo, inbound,
                   answeredInit, framingVars, ret>>

\* initialize() after its await, released when the initialize call of a
\* start() resolves: the notification goes to whatever this.process is now.
InitializeContinue ==
    /\ stdin' = IF process # 0
                THEN [stdin EXCEPT ![process] = Append(@, OutNotification("initialized"))]
                ELSE stdin
    /\ initialized' = TRUE

\* handleMessage's first branch matching every id send() has issued, pending
\* or not.
MatchesPending_AnyIssuedId(m) == m.hasId /\ m.id.t = "num" /\ m.id.v \in 1..requestId

\* handleMessage, first branch: any record whose id is a key of
\* pendingRequests settles that call and deletes the entry. The keys are the
\* numbers send() made, so a string id never matches.
MatchesPending(m) == m.hasId /\ m.id.t = "num" /\ m.id.v \in pendingRequests

\* The facade's method table: the legacy name of a method, "" where the
\* handler passes no fallbackMethod.
FacadeMethods == {"thread/start", "thread/fork"}
Legacy(m) == IF m = "thread/fork" THEN "thread/branch" ELSE ""

\* message.includes('unknown variant'), on the messages the subprocess uses.
UnknownMethodError == [code |-> 1, message |-> "unknown variant", data |-> "d1"]
InvalidEnumError ==
    [code |-> 2, message |-> "invalid params: unknown variant", data |-> "d3"]
includes(msg) == msg \in {"unknown variant", "invalid params: unknown variant"}

\* handleRequest's catch block retrying without looking at fallbackMethod.
RetryWanted_AnyMethod(id, msg) ==
    calls[id].caller = "ipc" /\ includes(msg)

\* handleRequest's catch block, for the call id it awaited, rejected with
\* message msg: whether it sends the fallback method.
RetryWanted(id, msg) ==
    calls[id].caller = "ipc" /\ Legacy(calls[id].method) # "" /\ includes(msg)

SettlePending(m) ==
    LET id == m.id.v
        settled == [calls EXCEPT ![id] =
                       IF m.error # NoError
                       THEN [@ EXCEPT !.status = "rejected", !.value = ErrorOf(m.error.message)]
                       ELSE [@ EXCEPT !.status = "resolved", !.value = m.result]]
        new == requestId + 1
    IN
    /\ IF m.error # NoError /\ RetryWanted(id, m.error.message) /\ process # 0
       THEN \* send(fallbackMethod) on the attached process
            /\ requestId < MaxReq
            /\ requestId' = new
            /\ calls' = [settled EXCEPT ![new] =
                            [method |-> Legacy(calls[id].method), caller |-> "ipc-retry",
                             proc |-> process, status |-> "pending", value |-> Undefined,
                             origin |-> id]]
            /\ pendingRequests' = (pendingRequests \ {id}) \cup {new}
            /\ stdin' = [stdin EXCEPT ![process] =
                            Append(@, OutRequest(Legacy(calls[id].method), new))]
            /\ UNCHANGED initialized
       ELSE /\ calls' = settled
            /\ pendingRequests' = pendingRequests \ {id}
            /\ UNCHANGED requestId
            /\ IF calls[id].caller = "start" /\ m.error = NoError
               THEN InitializeContinue
               ELSE UNCHANGED <<stdin, initialized>>
    /\ UNCHANGED <<emitted, sentTo, pendingApproval>>

\* handleServerRequest: the three known methods emit an event carrying
\* String(id); the WindowManager listener sends it to RouteTargets, where
\* ChatSession may take it. Any other method is logged only.
ApprovalType(method) ==
    IF method = "exec/approvalRequest" THEN "exec" ELSE "applyPatch"

handleServerRequest(m) ==
    LET req == [type |-> IF m.method \in ApprovalMethods THEN ApprovalType(m.method)
                         ELSE "userInput",
                requestId |-> String(m.id), threadId |-> m.threadId]
        targets == RouteTargets(m.threadId)
    IN
    /\ IF m.method \in ApprovalMethods
       THEN /\ emitted' = [name |-> "approvalRequest", req |-> req, method |-> m.method]
            /\ sentTo' = targets
            /\ pendingApproval' = OnApprovalRequest(req, targets)
       ELSE /\ IF m.method = "userInput/request"
               THEN /\ emitted' = [name |-> "userInputRequest", req |-> req,
                                   method |-> m.method]
                    /\ sentTo' = targets
               ELSE UNCHANGED <<emitted, sentTo>>
            /\ UNCHANGED pendingApproval
    /\ UNCHANGED <<calls, pendingRequests, requestId, stdin, initialized>>

\* handleServerNotification: a known method is emitted and broadcast.
handleServerNotification(m) ==
    /\ IF m.method = "turn/completed"
       THEN /\ emitted' = [name |-> "notification",
                           req |-> [type |-> "turnCompleted", requestId |-> StrId(0),
                                    threadId |-> m.threadId],
                           method |-> m.method]
            /\ sentTo' = BroadcastTargets
       ELSE UNCHANGED <<emitted, sentTo>>
    /\ UNCHANGED <<calls, pendingRequests, requestId, stdin, initialized, pendingApproval>>

handleMessage(m) ==
    IF MatchesPending(m) THEN SettlePending(m)
    ELSE IF m.hasMethod /\ m.hasId THEN handleServerRequest(m)
    ELSE IF m.hasMethod /\ ~m.hasId THEN handleServerNotification(m)
    ELSE UNCHANGED <<calls, pendingRequests, requestId, stdin, initialized, emitted,
                     sentTo, pendingApproval>>

\* ------------------------------------------------------ the subprocess
\* p answers its own initialize request with a result.
AnswersInitialize(p, m) ==
    /\ m.hasId /\ ~m.hasMethod /\ m.error = NoError /\ m.result # Undefined
    /\ m.id.t = "num" /\ m.id.v \in CallIds
    /\ calls[m.id.v].proc = p /\ calls[m.id.v].caller = "start"

\* Ids of the requests written to p so far.
WrittenTo(p) == {i \in CallIds : calls[i].proc = p}

\* What p may write as answers to the requests it was sent (any number of
\* times, so also after the call is settled): the result, an error.
AnswerRecords(p, errs) ==
    UNION {{ResponseRec(NumId(i), ResultFor(i))} \cup {ErrorRec(NumId(i), e) : e \in errs}
           : i \in WrittenTo(p)}

\* Answers a conforming server never writes: no result and no error, or the
\* id as a string.
OddAnswerRecords(p) ==
    UNION {{BareIdRec(NumId(i)), ResponseRec(StrId(i), ResultFor(i))} : i \in WrittenTo(p)}

ServerIds == {NumId(i) : i \in 1..MaxSrvId} \cup {StrId(1)}

ServerRequestRecords(methods, ids, threads) ==
    {ServerRequestRec(m, id, th) : m \in methods, id \in ids, th \in threads}

NotificationRecords == {NotificationRec(m, th) : m \in NotifMethods, th \in Threads}

\* One whole line from p's stdout reaches handleData while the buffer is
\* empty: the record is handled, then the continuations it released run. Output already in the pipe is delivered
\* also after p was killed or its 'exit' was emitted.
Recv(p, m) ==
    /\ p \in 1..spawned
    /\ procState[p] \notin {"spawnfail", "failed"}
    /\ buffer = <<>>
    /\ (m.hasMethod /\ m.hasId) =>
          /\ Cardinality(inbound) < MaxInbound
          /\ \A r \in inbound : r.id # m.id
    /\ handleMessage(m)
    /\ inbound' = IF m.hasMethod /\ m.hasId
                  THEN inbound \cup
                       {[id |-> m.id, method |-> m.method, threadId |-> m.threadId,
                         takenBy |-> {w \in Wins : pendingApproval'[w] # pendingApproval[w]}]}
                  ELSE inbound
    /\ answeredInit' = IF AnswersInitialize(p, m) THEN answeredInit \cup {p} ELSE answeredInit
    /\ UNCHANGED <<process, spawned, procState, windowVars, awaiting, framingVars, ret>>

\* ------------------------------------------------------- stdout text
\* Text is a sequence of characters. These four are enough to write lines
\* that are blank, lines that JSON.parse accepts and lines it rejects.
Chars == {"{", "}", " ", "\n"}

Chunks == UNION {[1..n -> Chars] : n \in 1..MaxChunk}

\* The chunks that keep the text received within MaxChars.
ChunksThatFit ==
    UNION {[1..n -> Chars] : n \in 1..(IF MaxChars - Len(stream) < MaxChunk
                                       THEN MaxChars - Len(stream) ELSE MaxChunk)}

\* s.split('\n'): the pieces between the newlines, at least one piece.
RECURSIVE split(_)
split(s) ==
    IF \A i \in 1..Len(s) : s[i] # "\n"
    THEN <<s>>
    ELSE LET i == CHOOSE k \in 1..Len(s) :
                      s[k] = "\n" /\ \A j \in 1..(k - 1) : s[j] # "\n"
         IN  <<SubSeq(s, 1, i - 1)>> \o split(SubSeq(s, i + 1, Len(s)))

\* line.trim(): without the leading and trailing blanks.
RECURSIVE trim(_)
trim(s) ==
    IF s = <<>> THEN s
    ELSE IF Head(s) = " " THEN trim(Tail(s))
    ELSE IF s[Len(s)] = " " THEN trim(SubSeq(s, 1, Len(s) - 1))
    ELSE s

\* JSON.parse(line) returns instead of throwing. Over Chars the only JSON
\* text is the empty object, with blanks anywhere around and inside it.
JSONparses(line) ==
    LET s == trim(line) IN
    /\ Len(s) >= 2
    /\ s[1] = "{" /\ s[Len(s)] = "}"
    /\ \A i \in 2..(Len(s) - 1) : s[i] = " "

\* The lines of a chunk's loop that reach handleMessage.
Dispatchable(line) == trim(line) # <<>> /\ JSONparses(line)

\* handleData stopping at the first line JSON.parse rejects, as it would
\* without the try / catch inside the loop.
RECURSIVE UntilBadLine(_)
UntilBadLine(ls) ==
    IF ls = <<>> THEN <<>>
    ELSE IF trim(Head(ls)) = <<>> THEN UntilBadLine(Tail(ls))
    ELSE IF JSONparses(Head(ls)) THEN <<Head(ls)>> \o UntilBadLine(Tail(ls))
    ELSE <<>>

handleData_StopsAtBadLine(p, data) ==
    LET pieces == split(buffer \o data)
        lines  == SubSeq(pieces, 1, Len(pieces) - 1)
        good   == UntilBadLine(lines)
    IN
    /\ p \in 1..spawned
    /\ procState[p] \notin {"spawnfail", "failed"}
    /\ Len(stream) + Len(data) <= MaxChars
    /\ buffer' = pieces[Len(pieces)]
    /\ dispatched' = dispatched \o [k \in 1..Len(good) |-> [line |-> good[k], proc |-> p]]
    /\ stream' = stream \o [k \in 1..Len(data) |->
                                [char |-> data[k], proc |-> p, first |-> (k = 1)]]
    /\ UNCHANGED <<managerVars, windowVars, rendererVars, emitted, sentTo, inbound,
                   answeredInit, ret>>

\* handleData without the buffer: each chunk is split on its own.
handleData_NoBuffer(p, data) ==
    LET pieces == split(data)
        lines  == SubSeq(pieces, 1, Len(pieces) - 1)
        good   == SelectSeq(lines, Dispatchable)
    IN
    /\ p \in 1..spawned
    /\ procState[p] \notin {"spawnfail", "failed"}
    /\ Len(stream) + Len(data) <= MaxChars
    /\ buffer' = <<>>
    /\ dispatched' = dispatched \o [k \in 1..Len(good) |-> [line |-> good[k], proc |-> p]]
    /\ stream' = stream \o [k \in 1..Len(data) |->
                                [char |-> data[k], proc |-> p, first |-> (k = 1)]]
    /\ UNCHANGED <<managerVars, windowVars, rendererVars, emitted, sentTo, inbound,
                   answeredInit, ret>>

\* handleData(data) for a 'data' event of p's stdout: the chunk is appended to
\* the buffer, the buffer is split, the last piece is kept and every other
\* piece that is not blank is parsed and, if it parses, handed to
\* handleMessage. The object these lines parse to has no id and no method,
\* for which handleMessage does nothing.
handleData(p, data) ==
    LET pieces == split(buffer \o data)
        lines  == SubSeq(pieces, 1, Len(pieces) - 1)
        good   == SelectSeq(lines, Dispatchable)
    IN
    /\ p \in 1..spawned
    /\ procState[p] \notin {"spawnfail", "failed"}
    /\ Len(stream) + Len(data) <= MaxChars
    /\ buffer' = pieces[Len(pieces)]
    /\ dispatched' = dispatched \o [k \in 1..Len(good) |-> [line |-> good[k], proc |-> p]]
    /\ stream' = stream \o [k \in 1..Len(data) |->
                                [char |-> data[k], proc |-> p, first |-> (k = 1)]]
    /\ UNCHANGED <<managerVars, windowVars, rendererVars, emitted, sentTo, inbound,
                   answeredInit, ret>>

\* respondToRequest: the Response carries the id it is given; nothing is
\* written when no process is attached.
respondToRequest(rid, result) ==
    stdin' = IF process # 0
             THEN [stdin EXCEPT ![process] = Append(@, OutResponse(rid, result))]
             ELSE stdin

\* ------------------------------------------------ windows and renderer
NewWin == Cardinality({w \in Wins : wins[w].kind # "none"}) + 1

\* createMainWindow(): the live main window, or a new one.
CreateMainWindow ==
    /\ ~IsAlive(mainWindow)
    /\ NewWin \in Wins
    /\ wins' = [wins EXCEPT ![NewWin] = [kind |-> "main", threadId |-> "", destroyed |-> FALSE]]
    /\ mainWindow' = NewWin
    /\ UNCHANGED <<managerVars, sessionWindows, windowMode, rendererVars,
                   emitted, sentTo, inbound, answeredInit, framingVars, ret>>

\* createSessionWindow without the check for an existing window of the thread.
createSessionWindow_NoExistingCheck(t, force) ==
    /\ IF windowMode = "tabs" /\ ~force
       THEN /\ IsAlive(mainWindow) \/ NewWin \in Wins
            /\ LET mw == IF IsAlive(mainWindow) THEN mainWindow ELSE NewWin IN
                /\ wins' = [wins EXCEPT ![mw] = [kind |-> "main", threadId |-> t,
                                                 destroyed |-> FALSE]]
                /\ mainWindow' = mw
            /\ UNCHANGED sessionWindows
       ELSE /\ NewWin \in Wins
            /\ wins' = [wins EXCEPT ![NewWin] = [kind |-> "session", threadId |-> t,
                                                 destroyed |-> FALSE]]
            /\ sessionWindows' = [sessionWindows EXCEPT ![t] = NewWin]
            /\ UNCHANGED mainWindow
    /\ UNCHANGED <<managerVars, windowMode, rendererVars,
                   emitted, sentTo, inbound, answeredInit, framingVars, ret>>

\* createSessionWindow without the final sessionWindows.set.
createSessionWindow_NoSet(t, force) ==
    /\ IF windowMode = "tabs" /\ ~force
       THEN /\ IsAlive(mainWindow) \/ NewWin \in Wins
            /\ LET mw == IF IsAlive(mainWindow) THEN mainWindow ELSE NewWin IN
                /\ wins' = [wins EXCEPT ![mw] = [kind |-> "main", threadId |-> t,
                                                 destroyed |-> FALSE]]
                /\ mainWindow' = mw
            /\ UNCHANGED sessionWindows
       ELSE IF IsAlive(sessionWindows[t])
       THEN UNCHANGED <<wins, mainWindow, sessionWindows>>
       ELSE /\ NewWin \in Wins
            /\ wins' = [wins EXCEPT ![NewWin] = [kind |-> "session", threadId |-> t,
                                                 destroyed |-> FALSE]]
            /\ UNCHANGED <<mainWindow, sessionWindows>>
    /\ UNCHANGED <<managerVars, windowMode, rendererVars,
                   emitted, sentTo, inbound, answeredInit, framingVars, ret>>

\* createSessionWindow(threadId, forceNewWindow). In tabs mode the main window
\* is navigated to the session; otherwise the thread's live window is focused
\* or a new one is created and stored under the thread.
createSessionWindow(t, force) ==
    /\ IF windowMode = "tabs" /\ ~force
       THEN /\ IsAlive(mainWindow) \/ NewWin \in Wins
            /\ LET mw == IF IsAlive(mainWindow) THEN mainWindow ELSE NewWin IN
                /\ wins' = [wins EXCEPT ![mw] = [kind |-> "main", threadId |-> t,
                                                 destroyed |-> FALSE]]
                /\ mainWindow' = mw
            /\ UNCHANGED sessionWindows
       ELSE IF IsAlive(sessionWindows[t])
       THEN UNCHANGED <<wins, mainWindow, sessionWindows>>
       ELSE /\ NewWin \in Wins
            /\ wins' = [wins EXCEPT ![NewWin] = [kind |-> "session", threadId |-> t,
                                                 destroyed |-> FALSE]]
            /\ sessionWindows' = [sessionWindows EXCEPT ![t] = NewWin]
            /\ UNCHANGED mainWindow
    /\ UNCHANGED <<managerVars, windowMode, rendererVars,
                   emitted, sentTo, inbound, answeredInit, framingVars, ret>>

\* A window is closed: its 'closed' handler runs (the main window's clears
\* mainWindow, a session window's deletes its thread's entry), the window is
\* destroyed and its renderer is gone.
CloseWindow(w) ==
    /\ wins[w].kind # "none" /\ ~wins[w].destroyed
    /\ wins' = [wins EXCEPT ![w].destroyed = TRUE]
    /\ IF wins[w].kind = "main"
       THEN mainWindow' = 0 /\ UNCHANGED sessionWindows
       ELSE /\ sessionWindows' = [sessionWindows EXCEPT ![wins[w].threadId] = 0]
            /\ UNCHANGED mainWindow
    /\ pendingApproval' = [pendingApproval EXCEPT ![w] = NoReq]
    /\ awaiting' = [awaiting EXCEPT ![w] = 0]
    /\ UNCHANGED <<managerVars, windowMode, emitted, sentTo, inbound, answeredInit, framingVars, ret>>

\* updateSettings({windowMode}).
UpdateSettings(mode) ==
    /\ windowMode' = mode
    /\ UNCHANGED <<managerVars, mainWindow, sessionWindows, wins, rendererVars,
                   emitted, sentTo, inbound, answeredInit, framingVars, ret>>

\* ChatSession.handleApprovalResponse up to its await: the user presses a
\* button of the modal in window w; the IPC handler calls respondToRequest
\* with the prompt's requestId. The modal stays until the reply comes back.
Decision(d) == Val("decision", 0, d)

handleApprovalResponse(w, d) ==
    /\ IsAlive(w)
    /\ pendingApproval[w] # NoReq
    /\ awaiting[w] < MaxClicks
    /\ respondToRequest(pendingApproval[w].requestId, Decision(d))
    /\ awaiting' = [awaiting EXCEPT ![w] = @ + 1]
    /\ UNCHANGED <<process, pendingRequests, requestId, initialized, calls, spawned,
                   procState, windowVars, pendingApproval, emitted, sentTo, inbound,
                   answeredInit, framingVars, ret>>

\* ... and its finally block, when the IPC reply is back: the slot is cleared.
ApprovalFinally(w) ==
    /\ awaiting[w] > 0
    /\ awaiting' = [awaiting EXCEPT ![w] = @ - 1]
    /\ pendingApproval' = [pendingApproval EXCEPT ![w] = NoReq]
    /\ UNCHANGED <<managerVars, windowVars, emitted, sentTo, inbound, answeredInit, framingVars, ret>>

\* --------------------------------------------------- specification Spec
\* The manager alone (no window is open, the subprocess only answers): its
\* API called in any order and the child processes' events.
SpecErrors == {e \in Errors : e.code = 2}

Next ==
    \/ Start
    \/ Stop
    \/ \E m \in {"thread/list"} : Send(m)
    \/ \E p \in Procs : ExitEvent(p)
    \/ \E i \in CallIds : WriteError(i)
    \/ \E p \in Procs : \E m \in AnswerRecords(p, SpecErrors) : Recv(p, m)

Spec == Init /\ [][Next]_vars

\* --------------------------------------------- specification SpecRouter
\* One subprocess that writes every kind of record while calls are pending.
NextRouter ==
    \/ Start
    \/ \E m \in {"thread/list"} : Send(m)
    \/ \E p \in Procs : \E m \in AnswerRecords(p, Errors) : Recv(p, m)
    \/ \E p \in Procs : \E m \in OddAnswerRecords(p) : Recv(p, m)
    \/ \E p \in Procs : \E m \in ServerRequestRecords({"exec/approvalRequest", "other/request"},
                                                       ServerIds, {"T1"}) : Recv(p, m)
    \/ \E p \in Procs : \E m \in NotificationRecords : Recv(p, m)

SpecRouter == Init /\ [][NextRouter]_vars

\* ------------------------------------------- specification SpecApproval
\* A running subprocess that asks for approvals and input (numbering its
\* requests 1, 2, ...), the windows that are opened and closed meanwhile
\* (windowMode stays 'multi', the store's default), and the user answering
\* the prompts.
NextServerId == NumId(Cardinality(inbound) + 1)

NextApproval ==
    \/ Start
    \/ \E p \in Procs : \E m \in AnswerRecords(p, {}) : Recv(p, m)
    \/ \E p \in Procs : \E m \in ServerRequestRecords(RequestMethods, {NextServerId}, Threads) :
            Recv(p, m)
    \/ CreateMainWindow
    \/ \E t \in Threads : createSessionWindow(t, FALSE)
    \/ \E w \in Wins : CloseWindow(w)
    \/ \E w \in Wins : \E d \in {"allow_once"} : handleApprovalResponse(w, d)
    \/ \E w \in Wins : ApprovalFinally(w)

SpecApproval == Init /\ [][NextApproval]_vars

\* ------------------------------------------ specification SpecLifecycle
\* start() and stop() in any order on a binary that may fail to start, a
\* subprocess that may answer, stay silent or end by itself, and the main
\* window opened and closed meanwhile. Node runs the next-tick 'error' event
\* of a failed spawn, and reports the exit of a killed child.
NextLifecycle ==
    \/ Start
    \/ StartSpawnFails
    \/ Stop
    \/ \E p \in Procs : ErrorEvent(p)
    \/ \E p \in Procs : ExitEvent(p)
    \/ \E i \in CallIds : WriteError(i)
    \/ \E p \in Procs : \E m \in AnswerRecords(p, Errors) : Recv(p, m)
    \/ CreateMainWindow
    \/ \E w \in Wins : CloseWindow(w)

SpecLifecycle ==
    /\ Init /\ [][NextLifecycle]_vars
    /\ \A p \in Procs : WF_vars(ErrorEvent(p))
    /\ \A p \in Procs : WF_vars(procState[p] = "dead" /\ ExitEvent(p))

\* -------------------------------------------- specification SpecRouting
\* A running subprocess that asks for approvals and input on thread T1 while
\* windows for either thread are opened (in either window mode, forced or
\* not) and closed.
RoutedMethods == {"exec/approvalRequest", "userInput/request"}

NextRouting ==
    \/ Start
    \/ \E p \in Procs : \E m \in ServerRequestRecords(RoutedMethods, {NextServerId}, {"T1"}) :
            Recv(p, m)
    \/ CreateMainWindow
    \/ \E t \in Threads : \E force \in BOOLEAN : createSessionWindow(t, force)
    \/ \E w \in Wins : CloseWindow(w)
    \/ \E mode \in {"multi", "tabs"} : UpdateSettings(mode)

SpecRouting == Init /\ [][NextRouting]_vars

\* --------------------------------------------- specification SpecNotify
\* A running subprocess that sends notifications about either thread while
\* the main window and session windows are opened and closed.
NextNotify ==
    \/ Start
    \/ \E p \in Procs : \E m \in NotificationRecords : Recv(p, m)
    \/ CreateMainWindow
    \/ \E t \in Threads : createSessionWindow(t, FALSE)
    \/ \E w \in Wins : CloseWindow(w)

SpecNotify == Init /\ [][NextNotify]_vars

\* --------------------------------------------- specification SpecFacade
\* Renderers invoking facade operations, one with a legacy name and one
\* without, on a subprocess that answers with results and with errors of
\* each class, and that may exit.
FacadeErrors == Errors \cup {InvalidEnumError}

NextFacade ==
    \/ Start
    \/ \E m \in FacadeMethods : handleRequest(m)
    \/ \E p \in Procs : \E m \in AnswerRecords(p, FacadeErrors) : Recv(p, m)
    \/ \E p \in Procs : ExitEvent(p)

SpecFacade == Init /\ [][NextFacade]_vars

\* -------------------------------------------- specification SpecFraming
\* Processes started and stopped one after another, each writing the
\* beginning of a record, its end, or a whole record line per chunk.
FramingChunks == {<<"{">>, <<"}", "\n">>, <<"{", "}", "\n">>}

NextFraming ==
    \/ Start
    \/ Stop
    \/ \E p \in Procs : \E data \in FramingChunks : handleData(p, data)

SpecFraming == Init /\ [][NextFraming]_vars

\* ---------------------------------------------- specification SpecLines
\* One process writing any text in chunks of any size.
NextLines ==
    \/ Start
    \/ \E p \in Procs : \E data \in ChunksThatFit : handleData(p, data)

SpecLines == Init /\ [][NextLines]_vars

\* =================================================================== claims
RouterRecords(p) ==
    AnswerRecords(p, Errors) \cup OddAnswerRecords(p) \cup NotificationRecords
    \cup ServerRequestRecords({"exec/approvalRequest", "other/request"}, ServerIds, {"T1"})

\* A Response of the wire protocol: an id, a result or an error, no method.
IsResponse(m) ==
    m.hasId /\ ~m.hasMethod /\ (m.result # Undefined \/ m.error # NoError)

\* The Response records written to any process's stdin, by place.
ResponsesWritten ==
    UNION {{<<p, k>> : k \in {j \in 1..Len(stdin[p]) : stdin[p][j].kind = "response"}}
           : p \in Procs}

Answered(r) == \E pk \in ResponsesWritten : stdin[pk[1]][pk[2]].id = String(r.id)

ExitError == ErrorOf("App server process exited")

\* C1: a call is settled only by the response that carries its id, with that
\* response's result or error message, whatever else the subprocess writes
\* and in whatever order; never by a record that is a request of the
\* subprocess.
C1_SettledByOwnResponse ==
    [][\A i \in CallIds :
          (calls[i].status = "pending" /\ calls'[i].status # "pending") =>
             /\ inbound' = inbound
             /\ \E p \in Procs : \E m \in RouterRecords(p) :
                  /\ Recv(p, m)
                  /\ m.id = NumId(i)
                  /\ calls'[i].value = IF m.error # NoError THEN ErrorOf(m.error.message)
                                       ELSE m.result]_vars

\* C2: only a record with an id, a result or an error and no method settles a
\* pending call; receiving a record with a method and an id leaves every
\* pending call and pendingRequests as they were, also when its id is the id
\* of a pending call.
C2_RequestNeverSettles ==
    [][/\ (inbound' # inbound) => (pendingRequests' = pendingRequests /\ calls' = calls)
       /\ (pendingRequests' # pendingRequests /\ requestId' = requestId) =>
             \E p \in Procs : \E m \in RouterRecords(p) : Recv(p, m) /\ IsResponse(m)]_vars

\* C3: the 'exit' of a process rejects every call that is pending at that
\* moment, none of which was settled before, with the process-exited error,
\* and leaves pendingRequests empty; a settled call is never settled again.
C3_ExitRejectsPendingOnce ==
    [][/\ \A p \in Procs :
             (procState[p] # "exited" /\ procState'[p] = "exited") =>
                /\ pendingRequests' = {}
                /\ \A i \in pendingRequests :
                      /\ calls[i].status = "pending"
                      /\ calls'[i].status = "rejected"
                      /\ calls'[i].value = ExitError
       /\ \A i \in CallIds :
             calls[i].status \in {"resolved", "rejected"} => calls'[i] = calls[i]]_vars

\* Three calls were pending when the only process exited.
C3_Witness ==
    /\ spawned = 1 /\ procState[1] = "exited"
    /\ \A i \in 1..3 : calls[i].status = "rejected" /\ calls[i].value = ExitError

\* C4: a send() made while no process is attached is rejected at once with
\* the not-running error; it writes nothing, takes no id and adds no entry.
C4_SendNotRunning ==
    [][(process = 0 /\ ret' # ret /\ ret'.op = "send") =>
          /\ ret'.res = "not_running"
          /\ UNCHANGED <<stdin, pendingRequests, requestId, calls>>]_vars

\* A send() was refused after the process that had been started exited.
C4_Witness ==
    /\ ret = [op |-> "send", res |-> "not_running"]
    /\ spawned >= 1 /\ procState[1] = "exited" /\ process = 0

\* C5: every Response written carries the id of a received request, with the
\* same value and the same JSON type.
C5_ResponseEchoesId ==
    \A pk \in ResponsesWritten : \E r \in inbound : r.id = stdin[pk[1]][pk[2]].id

\* C6: at most one Response is written for any one inbound request.
C6_AtMostOneResponse ==
    \A r \in inbound :
        Cardinality({pk \in ResponsesWritten : stdin[pk[1]][pk[2]].id = String(r.id)}) <= 1

\* C7: while the subprocess runs, an approval request that a window took into
\* its prompt and that has no Response yet is still on display in such a
\* window. (The only way a Response is written is from a prompt showing the
\* request, and a request is sent once: a request this fails for is never
\* answered.)
C7_UnansweredStaysOnDisplay ==
    \A r \in inbound :
        (process # 0 /\ ~Answered(r) /\ \E w \in r.takenBy : IsAlive(w)) =>
            \E w \in r.takenBy :
                IsAlive(w) /\ pendingApproval[w].requestId = String(r.id)

\* C8: a request with an unregistered method has an error Response with its
\* id on the subprocess's stdin as soon as it has been handled.
C8_UnknownMethodAnswered ==
    \A r \in inbound :
        r.method \notin (ApprovalMethods \cup {"userInput/request"}) =>
            \E pk \in ResponsesWritten :
                /\ stdin[pk[1]][pk[2]].id \in {r.id, String(r.id)}
                /\ stdin[pk[1]][pk[2]].result.k = "error"

\* C9: the initialized notification is on p's stdin, and isReady() holds with
\* p attached, only if p has answered its own initialize request with a
\* result.
C9_HandshakeBeforeReady ==
    \A p \in Procs :
        /\ (\E k \in 1..Len(stdin[p]) : stdin[p][k] = OutNotification("initialized"))
              => p \in answeredInit
        /\ (isReady /\ process = p) => p \in answeredInit

\* C10: on every process's stdin, a request other than initialize comes after
\* the initialized notification.
C10_NoRequestBeforeHandshake ==
    \A p \in Procs : \A k \in 1..Len(stdin[p]) :
        (stdin[p][k].kind = "request" /\ stdin[p][k].method # "initialize") =>
            \E j \in 1..(k - 1) : stdin[p][j] = OutNotification("initialized")

\* Processes that were spawned and whose exit has not been reported.
Unexited == {p \in Procs : procState[p] \in {"running", "dead"}}

\* C11: a start() made while a process is attached returns without spawning,
\* and no process is spawned while an earlier one has not exited: at most
\* one spawned process is awaiting its exit at any time.
C11_OneProcessBetweenExits ==
    /\ Cardinality(Unexited) <= 1
    /\ (ret = [op |-> "start", res |-> "already_running"]) => process # 0

\* C12: once the 'error' of a process that could not be started has been
\* reported, the start() that spawned it has failed and that process is no
\* longer attached (so the next start() spawns again).
C12_SpawnErrorFailsStart ==
    \A p \in Procs :
        procState[p] = "failed" =>
            /\ process # p
            /\ \A i \in CallIds :
                  (calls[i].proc = p /\ calls[i].caller = "start") =>
                      calls[i].status = "rejected"

\* C13: every start() call that is awaiting the answer to its initialize
\* request is eventually settled (resolved or rejected), also when the
\* subprocess never answers.
C13_StartSettles ==
    \A i \in CallIds :
        (calls[i].caller = "start" /\ calls[i].status = "pending")
            ~> (calls[i].status # "pending")

\* The failures that report a closed transport: the process exited, or the
\* write to its stdin failed.
TransportClosed == {ExitError, ErrorOf("write EPIPE")}

\* C14: a call that is pending on a process stop() has killed is settled in
\* one way only: rejected with a transport-closed failure.
\* (send() never writes to a killed process, so such a call was pending when
\* stop() ran.)
C14_StopRejectsPending ==
    [][\A i \in CallIds :
          (/\ calls[i].status = "pending"
           /\ procState[calls[i].proc] = "dead"
           /\ calls'[i].status # "pending") =>
              /\ calls'[i].status = "rejected"
              /\ calls'[i].value \in TransportClosed]_vars

\* The windows that are open (created and not destroyed).
OpenWindows == {w \in Wins : wins[w].kind # "none" /\ ~wins[w].destroyed}

\* C15: when a running process (one that was not stopped) exits, the exit
\* event is emitted and an event is sent to every open window.
C15_CrashReachesWindows ==
    [][\A p \in Procs :
          (procState[p] = "running" /\ procState'[p] = "exited") =>
              /\ emitted'.name = "exit"
              /\ sentTo' = OpenWindows]_vars

\* The request received in this step, if handleServerRequest emits it as an
\* approvalRequest or userInputRequest event: its method is one of the three
\* and handleMessage did not take its id for the id of a pending call.
Forwarded ==
    {r \in inbound' \ inbound :
        /\ r.method \in ApprovalMethods \cup {"userInput/request"}
        /\ ~(r.id.t = "num" /\ r.id.v \in pendingRequests)}

ForwardedEvent == emitted.name \in {"approvalRequest", "userInputRequest"}

\* C16: a forwarded request for a thread whose registered session window is
\* open is sent to that window and to no other.
C16_RoutedToThreadWindowOnly ==
    [][\A r \in Forwarded :
          IsAlive(sessionWindows[r.threadId]) =>
              sentTo' = {sessionWindows[r.threadId]}]_vars

\* A request went to its thread's window alone while a window opened before
\* that one was still open.
C16_Witness ==
    /\ ForwardedEvent
    /\ IsAlive(sessionWindows[emitted.req.threadId])
    /\ sentTo = {sessionWindows[emitted.req.threadId]}
    /\ \E v \in OpenWindows : v < sessionWindows[emitted.req.threadId]

\* C17: a forwarded request for a thread with no open registered window is
\* sent to every open window, and only to open windows.
C17_BroadcastFallback ==
    [][\A r \in Forwarded :
          ~IsAlive(sessionWindows[r.threadId]) => sentTo' = OpenWindows]_vars

\* A request for a thread without a window went to the main window and to
\* another thread's session window, while a closed window got nothing.
C17_Witness ==
    /\ ForwardedEvent
    /\ sessionWindows[emitted.req.threadId] = 0
    /\ sentTo = OpenWindows
    /\ mainWindow \in sentTo
    /\ \E w \in sentTo : wins[w].kind = "session"

\* The session windows created for thread t, and the one created last.
SessionWindowsOf(t) == {w \in Wins : wins[w].kind = "session" /\ wins[w].threadId = t}
LatestSessionWindow(t) ==
    CHOOSE w \in SessionWindowsOf(t) : \A v \in SessionWindowsOf(t) : v <= w

\* C18: when session windows were registered for a thread one after another
\* and the last of them is open, a forwarded request for the thread is sent
\* to the last one only.
C18_LastAssociationWins ==
    [][\A r \in Forwarded :
          (/\ Cardinality(SessionWindowsOf(r.threadId)) >= 2
           /\ IsAlive(LatestSessionWindow(r.threadId))) =>
              sentTo' = {LatestSessionWindow(r.threadId)}]_vars

\* A request for a thread went to its second window alone.
C18_Witness ==
    /\ ForwardedEvent
    /\ Cardinality(SessionWindowsOf(emitted.req.threadId)) >= 2
    /\ sentTo = {LatestSessionWindow(emitted.req.threadId)}
    /\ IsAlive(LatestSessionWindow(emitted.req.threadId))

\* C19: the legacy name is sent only after the primary call failed with the
\* server's unknown-method error; after any other failure (a validation
\* error, another remote error, the process exiting) no second request is
\* written.
C19_RetryOnlyOnUnknownMethod ==
    \A j \in CallIds :
        calls[j].caller = "ipc-retry" =>
            calls[calls[j].origin].value = ErrorOf(UnknownMethodError.message)

\* The calls made by the catch block of the operation whose primary call is i.
Retries(i) == {j \in CallIds : calls[j].origin = i}

\* The places on any stdin of the request records with id n.
RequestsWritten(n) ==
    UNION {{<<p, k>> : k \in {x \in 1..Len(stdin[p]) :
                                 stdin[p][x].kind = "request" /\ stdin[p][x].id = NumId(n)}}
           : p \in Procs}

\* C20: a facade operation that reached send() with a process attached wrote
\* its primary request once, and after it at most one more, with the legacy
\* name and only once the primary had failed; none when the operation has no
\* legacy name; and a legacy call is never followed by another request of
\* the operation, whatever it fails with.
C20_AtMostOneRetry ==
    \A i \in CallIds :
        calls[i].caller \in {"ipc", "ipc-retry"} =>
            /\ Cardinality(RequestsWritten(i)) = 1
            /\ Cardinality(Retries(i)) <=
                  (IF calls[i].caller = "ipc" /\ Legacy(calls[i].method) # "" THEN 1 ELSE 0)
            /\ \A j \in Retries(i) :
                  /\ j > i
                  /\ calls[j].method = Legacy(calls[i].method)
                  /\ calls[i].status = "rejected"

\* An operation's legacy call failed with the unknown-method error as its
\* primary call had, while its process was still attached.
C20_Witness ==
    \E i \in CallIds : \E j \in Retries(i) :
        /\ calls[i].caller = "ipc"
        /\ calls[j].status = "rejected"
        /\ calls[j].value = ErrorOf(UnknownMethodError.message)
        /\ process = calls[j].proc

\* The text passed to handleData so far, whatever the chunks were.
Text == [k \in 1..Len(stream) |-> stream[k].char]
NewlineAt == {i \in 1..Len(stream) : Text[i] = "\n"}

\* The line that the newline at position n terminates, and where it starts.
LineStart(n) ==
    LET before == {j \in NewlineAt : j < n}
    IN  IF before = {} THEN 1
        ELSE (CHOOSE j \in before : \A k \in before : k <= j) + 1
LineEndingAt(n) == SubSeq(Text, LineStart(n), n - 1)

\* The complete lines among the first n characters, in order.
RECURSIVE LinesUpTo(_)
LinesUpTo(n) ==
    IF n = 0 THEN <<>>
    ELSE LinesUpTo(n - 1) \o (IF n \in NewlineAt THEN <<LineEndingAt(n)>> ELSE <<>>)

IsRecordLine(line) == (\E i \in 1..Len(line) : line[i] # " ") /\ JSONparses(line)
IsBadLine(line) == (\E i \in 1..Len(line) : line[i] # " ") /\ ~JSONparses(line)

LaterLinesDispatched ==
    \A n \in NewlineAt :
        (IsRecordLine(LineEndingAt(n))
            /\ \E m \in NewlineAt : m < n /\ IsBadLine(LineEndingAt(m))) =>
        LET k == Len(SelectSeq(LinesUpTo(n), IsRecordLine))
        IN  k <= Len(dispatched) /\ dispatched[k].line = LineEndingAt(n)

\* C22: a chunk with lines that are not JSON changes neither pendingRequests
\* nor the calls nor the process, and the lines after such a line, in the
\* same chunk and in later ones, are handed to handleMessage all the same.
C22_BadLineDropped ==
    [][stream' # stream =>
          /\ UNCHANGED <<pendingRequests, calls, requestId, process, procState, initialized>>
          /\ LaterLinesDispatched']_vars

\* A rejected line and a record line after it arrived in one chunk, and the
\* record line was handed over.
C22_Witness ==
    /\ Len(dispatched) >= 1
    /\ \E m \in NewlineAt : \E n \in NewlineAt :
          /\ m < n
          /\ IsBadLine(LineEndingAt(m))
          /\ IsRecordLine(LineEndingAt(n))
          /\ \A j \in (m + 1)..n : ~stream[j].first

\* The characters passed to handleData in this step.
NewData ==
    [k \in 1..(Len(stream') - Len(stream)) |-> stream'[Len(stream) + k].char]

\* C28: when the buffer holds only text of processes that were stopped or
\* have exited, a chunk from a process started after them is decoded as if
\* the buffer were empty.
C28_NoCarryOver ==
    [][(/\ Len(stream') > Len(stream)
        /\ buffer # <<>>
        /\ \A k \in (Len(stream) - Len(buffer) + 1)..Len(stream) :
              /\ stream[k].proc < stream'[Len(stream')].proc
              /\ procState[stream[k].proc] \in {"dead", "exited"}) =>
         LET pieces == split(NewData)
             own == SelectSeq(SubSeq(pieces, 1, Len(pieces) - 1), IsRecordLine)
         IN  /\ buffer' = pieces[Len(pieces)]
             /\ Len(dispatched') = Len(dispatched) + Len(own)
             /\ \A k \in 1..Len(own) : dispatched'[Len(dispatched) + k].line = own[k]]_vars

\* A response (an id, no method) whose id is not the id of a pending call.
IsUnmatchedResponse(m) ==
    m.hasId /\ ~m.hasMethod /\ ~(m.id.t = "num" /\ m.id.v \in pendingRequests)

\* C23: receiving a response whose id matches no pending call settles no
\* call, emits nothing, writes nothing to the subprocess and leaves
\* pendingRequests, requestId and the process as they were.
C23_UnmatchedResponseIgnored ==
    [][\/ UNCHANGED <<calls, pendingRequests, requestId, stdin, process, initialized,
                      emitted, sentTo, pendingApproval>>
       \/ \A p \in Procs : \A m \in AnswerRecords(p, SpecErrors) :
             ~(IsUnmatchedResponse(m) /\ Recv(p, m))]_vars

\* The answer to an initialize call arrived after the exit of its process
\* had already rejected the call.
C23_Witness ==
    \E i \in CallIds :
        /\ calls[i].caller = "start"
        /\ calls[i].status = "rejected" /\ calls[i].value = ExitError
        /\ calls[i].proc \in answeredInit

\* The failure a caller gets for the error object e of a response: a
\* RemoteError with the three fields of e. (The value of a call rejected with
\* new Error(message) holds the message alone, see Val.)
RemoteError(e) == [k |-> "error", code |-> e.code, message |-> e.message, data |-> e.data]

\* C24: a response with an error object rejects the call with its id, with a
\* failure that carries the error's code, message and data, and settles no
\* other call.
C24_ErrorCarriesCodeAndData ==
    [][\A p \in Procs : \A e \in Errors : \A i \in WrittenTo(p) :
          (i \in pendingRequests /\ Recv(p, ErrorRec(NumId(i), e))) =>
              /\ calls'[i].status = "rejected"
              /\ calls'[i].value = RemoteError(e)
              /\ \A j \in CallIds \ {i} : calls'[j] = calls[j]]_vars

\* The ids of the request records written to process p, in writing order.
RequestIdsOn(p) ==
    LET reqs == SelectSeq(stdin[p], LAMBDA r : r.kind = "request")
    IN  [k \in 1..Len(reqs) |-> reqs[k].id.v]

\* C25: the requests send() has written carry the ids 1, 2, ..., requestId,
\* each exactly once over all processes and in increasing order on each, so
\* no id is used twice, whether the process was stopped or exited and another
\* one started in between; the pending calls are among them.
C25_IdsNeverReused ==
    /\ \A n \in 1..MaxReq :
          Cardinality(RequestsWritten(n)) = IF n <= requestId THEN 1 ELSE 0
    /\ \A p \in Procs : \A a, b \in 1..Len(RequestIdsOn(p)) :
          a < b => RequestIdsOn(p)[a] < RequestIdsOn(p)[b]
    /\ pendingRequests \subseteq 1..requestId

\* Requests were written to two processes, the first of which has exited.
C25_Witness ==
    /\ spawned = 2
    /\ procState[1] = "exited"
    /\ Len(RequestIdsOn(1)) > 0
    /\ Len(RequestIdsOn(2)) > 1

\* C26: a notification naming thread T, received while the window registered
\* for T is open, is sent to that window and to no session window that shows
\* another thread.
C26_NotificationRoutedByThread ==
    [][\A p \in Procs : \A T \in Threads :
          (/\ IsAlive(sessionWindows[T])
           /\ Recv(p, NotificationRec("turn/completed", T))) =>
              /\ sessionWindows[T] \in sentTo'
              /\ \A w \in sentTo' :
                    wins[w].kind = "session" => wins[w].threadId = T]_vars

\* The exit event of process p arrives after stop() and a later start()
\* attached a newer process.
LateExit(p) == ExitEvent(p) /\ procState[p] = "dead" /\ process > p

\* C27: the delayed exit event of a stopped process leaves the newer process
\* attached, leaves the initialized flag as it was, and rejects no call that
\* was written to the newer process.
C27_LateExitSparesNewProcess ==
    [][\A p \in Procs :
          LateExit(p) =>
              /\ process' = process
              /\ initialized' = initialized
              /\ \A i \in WrittenTo(process) : calls'[i] = calls[i]]_vars

\* The initialize calls awaited by start().
StartCalls == {i \in CallIds : calls[i].caller = "start"}

\* C30: a start() call that completes successfully does so with isReady()
\* true: the one that spawned, when its initialize call resolves, and one that
\* found a process attached, when it returns.
C30_StartedMeansReady ==
    [][/\ (ret' # ret /\ ret'.op = "start" /\ ret'.res = "already_running") => isReady'
       /\ \A i \in StartCalls :
             (calls[i].status = "pending" /\ calls'[i].status = "resolved") => isReady']_vars

\* C29: every session window that is not destroyed is the value sessionWindows
\* holds for its thread, so that targeted delivery and broadcast reach it; in
\* particular no 'closed' handler of an earlier window of the thread has
\* deleted the entry of a newer one.
C29_OpenSessionWindowsAreStored ==
    \A w \in Wins :
        (wins[w].kind = "session" /\ ~wins[w].destroyed) =>
            sessionWindows[wins[w].threadId] = w

\* A thread whose first window was closed has a second, open window, and
\* that one is the entry of the thread.
C29_Witness ==
    \E T \in Threads : \E w1, w2 \in Wins :
        /\ w1 < w2
        /\ wins[w1].kind = "session" /\ wins[w1].threadId = T /\ wins[w1].destroyed
        /\ wins[w2].kind = "session" /\ wins[w2].threadId = T /\ ~wins[w2].destroyed
        /\ sessionWindows[T] = w2

====
